---- MODULE Spec2Model ----
(***************************************************************************)
(* Model of the HEB scraper (src/app.py): the field extractor              *)
(* (extract_product_data), the extraction pass and accumulator             *)
(* (extract_products, scrape_category_page) and the scroll orchestrator    *)
(* (scroll_page).                                                          *)
(*                                                                         *)
(* Strings are modelled as sequences of fragments (tokens): a URL such as  *)
(* https://heb.com/p/1 is <<"https://", "heb.com", "/p/", "1">>.  A Python *)
(* substring test ('heb.com' in href) is a test for a fragment, startswith *)
(* is a test on the first fragment, and concatenation is \o.  None is the  *)
(* one-fragment sequence NULL, the empty string is << >>.                  *)
(***************************************************************************)
EXTENDS Integers, Sequences, FiniteSets, TLC

VARIABLES
    products,        \* self.products: the accumulated collection (a list)
    seen_urls,       \* self.seen_urls: the set of seen unique keys
    pc,              \* position inside scrape_category_page
    visits,          \* number of calls of scrape_category_page so far
    idx,             \* extract_products: number of candidates processed in the running pass
    pass_products,   \* extract_products: its local list products (pass 2: products_pass2)
    skipped,         \* history: the reasons (line 1162) candidates were skipped for, this visit
    raw_links1,      \* history: hyperlinks of the acceptable dicts extracted in pass 1
    raw_links2,      \* history: hyperlinks of the acceptable dicts extracted in pass 2
    raw_titles,      \* history: titles of the acceptable dicts without hyperlink, this visit
    dup_titles,      \* history: those of raw_titles that two or more candidates yielded
    links_before,    \* history: the hyperlinks in self.products when the visit started
    ex_elem,         \* extract_product_data: the element argument
    ex_index,        \* extract_product_data: the index argument
    ex_result,       \* extract_product_data: what the call did
    ex_pc,           \* extract_product_data: "idle", "called" or "returned"
    sc_pc,           \* position inside scroll_page
    last_height,     \* scroll_page: its local last_height
    last_product_count,      \* scroll_page: its local last_product_count
    scrolls,         \* scroll_page: its local scrolls
    no_change_count, \* scroll_page: its local no_change_count
    no_product_change_count, \* scroll_page: its local no_product_change_count
    sc_steps,        \* history: iterations of the main loop started in this call
    late_images,     \* history: the page gained images during the re-check scrolls of the last iteration
    esc_streak,      \* history: no_product_change_count when the last iteration entered line 557's branch, else -1
    static_page,     \* history: every reading of this call showed the first height and one non-zero image count
    m_pc,            \* position inside main
    scraper,         \* main: its local scraper is set (not None)
    driver,          \* the browser session: "none", "open" or "quit"
    quits,           \* history: number of calls of driver.quit()
    m_products,      \* main: its local products, the list scrape_homepage returned
    exports,         \* history: number of times main started saving the collection
    loc_pc,          \* extract_products: position inside the search for product elements
    page,            \* the DOM nodes of the page the search runs on
    product_elements,        \* extract_products: its local list product_elements
    seen_element_ids,        \* extract_products: its local set seen_element_ids
    tier_log,        \* history: for every tier decided so far, what the list held and
                     \* whether the tier ran
    car_pc,          \* position inside scroll_horizontal_carousels
    carousels,       \* scroll_horizontal_carousels: its local list carousels
    car_i,           \* scroll_horizontal_carousels: position of the loop of line 374
    car_done,        \* history: what happened to each container processed so far
    car_nodes,       \* history: the DOM node of each entry of carousels
    ct_pc,           \* position inside the processing of one container (lines 375-470)
    client_width,    \* scroll_horizontal_carousels: its local client_width
    scroll_width,    \* scroll_horizontal_carousels: its local scroll_width
    ct_left,         \* the scrollLeft of the container
    ct_fixed,        \* the container ignores assignments to its scrollLeft
    clicks,          \* scroll_horizontal_carousels: its local clicks
    h_scrolls,       \* scroll_horizontal_carousels: its local scrolls (line 447)
    ct_clicked,      \* history: the clicks made on a next control
    shown            \* history: the content offsets that were inside the visible window

accVars == <<products, seen_urls, pc, visits, idx, pass_products,
             skipped, raw_links1, raw_links2, raw_titles, dup_titles, links_before>>
extVars == <<ex_elem, ex_index, ex_result, ex_pc>>
scVars == <<sc_pc, last_height, last_product_count, scrolls, no_change_count,
            no_product_change_count, sc_steps, late_images, esc_streak, static_page>>
mainVars == <<m_pc, scraper, driver, quits, m_products, exports>>
locVars == <<loc_pc, page, product_elements, seen_element_ids, tier_log>>
foundVars == <<car_pc, carousels, car_i, car_done, car_nodes>>
ctVars == <<ct_pc, client_width, scroll_width, ct_left, ct_fixed, clicks, h_scrolls, ct_clicked, shown>>
carVars == <<foundVars, ctVars>>
restVars == <<mainVars, locVars, carVars>>
vars == <<accVars, extVars, scVars, restVars>>

----------------------------------------------------------------------------
(* Strings *)

NULL == <<"None">>

Truthy(s) == s # NULL /\ s # << >>

Contains(s, frag) == \E i \in 1..Len(s) : s[i] = frag

SchemeFrags == {"https://", "http://"}

SlashFrags == {"/", "/p/", "/product/", "/category/", "/department/", "/shop/", "/img/"}

StartsWithHttp(s) == Len(s) > 0 /\ s[1] \in SchemeFrags

StartsWithSlash(s) == Len(s) > 0 /\ s[1] \in SlashFrags

base_url == <<"https://", "heb.com">>

\* href = self.base_url + href if href.startswith('/') else f"{self.base_url}/{href}"
JoinBase(href) == IF StartsWithSlash(href) THEN base_url \o href ELSE base_url \o <<"/">> \o href

\* if not href.startswith('http'): href = <joined with base_url>
Absolutize(href) == IF StartsWithHttp(href) THEN href ELSE JoinBase(href)

MentionsSite(href) == Contains(href, "heb.com")

\* '/category/' in url or '/department/' in url or '/shop/' in url
IsCategoryUrl(url) ==
    Contains(url, "/category/") \/ Contains(url, "/department/") \/ Contains(url, "/shop/")

\* The index of the first TRUE of a sequence of flags, 0 when there is none.
RECURSIVE FirstTrue(_, _)
FirstTrue(flags, i) ==
    IF i > Len(flags) THEN 0
    ELSE IF flags[i] THEN i
    ELSE FirstTrue(flags, i + 1)


----------------------------------------------------------------------------
(* extract_product_data: hyperlink strategies *)

\* Strategies 1 and 2: one href, made absolute, accepted when it mentions the site.
LinkFromHref(href) ==
    LET abs == Absolutize(href)
    IN IF Truthy(href) /\ MentionsSite(abs) THEN abs ELSE NULL

\* Strategy 1: the element itself is a link.
LinkStrategy1(e) == IF e.tag = "a" THEN LinkFromHref(e.href) ELSE NULL

\* Strategy 2: the first descendant link (find_element raises when there is none).
LinkStrategy2(e) ==
    IF "S2" \in e.fails \/ Len(e.links) = 0 THEN NULL ELSE LinkFromHref(e.links[1])

\* Strategy 3: the first descendant link whose raw href mentions the site.
LinkStrategy3(e) ==
    IF "S3" \in e.fails THEN NULL
    ELSE LET ok(h) == Truthy(h) /\ MentionsSite(h)
             i == FirstTrue([k \in 1..Len(e.links) |-> ok(e.links[k])], 1)
         IN IF i = 0 THEN NULL ELSE Absolutize(e.links[i])

\* Strategy 4: the first quoted literal of the onclick attribute that mentions the site.
LinkStrategy4(e) ==
    IF "S4" \in e.fails THEN NULL
    ELSE LET i == FirstTrue([k \in 1..Len(e.onclick) |-> MentionsSite(e.onclick[k])], 1)
         IN IF i = 0 THEN NULL ELSE e.onclick[i]

\* The first value of a strategy chain that is set; NULL when there is none.
RECURSIVE FirstSet(_, _)
FirstSet(values, i) ==
    IF i > Len(values) THEN NULL
    ELSE IF Truthy(values[i]) THEN values[i]
    ELSE FirstSet(values, i + 1)

Hyperlink(e) ==
    FirstSet(<<LinkStrategy1(e), LinkStrategy2(e), LinkStrategy3(e), LinkStrategy4(e)>>, 1)

----------------------------------------------------------------------------
(* Rendered text: a line is a sequence of fragments separated by one space;  *)
(* a multi-line text is a sequence of lines.                                 *)

\* len() of one fragment.
FragLen(f) ==
    CASE f = "X" -> 1
      [] f \in {"Milk", "12oz", "Shop", "View", "Soup"} -> 4
      [] f \in {"Brand", "12.99", "Price"} -> 5
      [] f \in {"Cereal", "$12.99"} -> 6
      [] f = "$3.50" -> 5
      [] f = "$" -> 1
      [] f = "Shop Now" -> 8
      [] f = "Add to Cart" -> 11
      [] f = "View Details" -> 12
      [] f = "Long150" -> 150
      [] f = "Long160" -> 160
      [] f = "Long201" -> 201
      [] OTHER -> 3

\* len(f.split())
FragWords(f) ==
    CASE f \in {"Shop Now", "View Details"} -> 2
      [] f = "Add to Cart" -> 3
      [] OTHER -> 1

\* The noise terms that occur in f.lower().
NoiseIn(f) ==
    CASE f = "Shop" -> {"shop"}
      [] f = "View" -> {"view"}
      [] f = "Price" -> {"price"}
      [] f = "Shop Now" -> {"shop", "shop now"}
      [] f = "View Details" -> {"view", "view details"}
      [] f = "Add to Cart" -> {"add to cart"}
      [] OTHER -> {}

RECURSIVE SumLen(_, _)
SumLen(line, i) == IF i > Len(line) THEN 0 ELSE FragLen(line[i]) + SumLen(line, i + 1)

\* len(line)
LineLen(line) == IF Len(line) = 0 THEN 0 ELSE SumLen(line, 1) + (Len(line) - 1)

\* 5 <= len(text) <= 200
TitleLength(n) == 5 <= n /\ n <= 200

RECURSIVE SumWords(_, _)
SumWords(line, i) == IF i > Len(line) THEN 0 ELSE FragWords(line[i]) + SumWords(line, i + 1)

\* term in line.lower()
HasTerm(line, term) == \E i \in 1..Len(line) : term \in NoiseIn(line[i])

\* Fragments matching \$[\d,]+\.?\d* as a whole, and bare amounts [\d,]+\.?\d*
PriceFrags == {"$12.99", "$3.50"}

AmountFrags == {"12.99"}

\* re.match(r'^\$[\d,]+\.?\d*$', text): the whole text is one price.
IsPurePrice(line) == Len(line) = 1 /\ line[1] \in PriceFrags

\* re.match(r'^\$[\d,]+\.?\d*', text): the text starts with a price.
StartsWithPrice(line) == Len(line) > 0 /\ line[1] \in PriceFrags

\* text[:150]: whole fragments while they fit; the 160 character word is cut to 150.
RECURSIVE FitPrefix(_, _)
FitPrefix(line, n) ==
    IF n = 0 THEN << >>
    ELSE IF LineLen(SubSeq(line, 1, n)) <= 150 THEN SubSeq(line, 1, n)
    ELSE FitPrefix(line, n - 1)

Truncate150(line) ==
    IF LineLen(line) <= 150 THEN line
    ELSE IF line[1] \in {"Long160", "Long201"} THEN <<"Long150">>
    ELSE FitPrefix(line, Len(line))

\* A multi-line text as one string: the lines joined by newline fragments.
RECURSIVE JoinLines(_, _)
JoinLines(lines, i) ==
    IF i > Len(lines) THEN << >>
    ELSE IF i = Len(lines) THEN lines[i]
    ELSE lines[i] \o <<"\n">> \o JoinLines(lines, i + 1)

FullText(e) == JoinLines(e.text, 1)

RECURSIVE SumLineLen(_, _)
SumLineLen(lines, i) == IF i > Len(lines) THEN 0 ELSE LineLen(lines[i]) + SumLineLen(lines, i + 1)

\* len(element.text.strip())
FullTextLen(e) == IF Len(e.text) = 0 THEN 0 ELSE SumLineLen(e.text, 1) + (Len(e.text) - 1)

----------------------------------------------------------------------------
(* extract_product_data: title strategies *)

TitleNoise1 == {"price", "add to cart", "buy now", "view", "shop", "category"}

TitleNoise2 == {"price", "add to cart", "buy now", "view details", "shop now", "learn more"}

\* The validity predicate of strategy 1 (descendant title elements).
ValidTitle1(t) ==
    /\ Truthy(t)
    /\ TitleLength(LineLen(t))
    /\ ~IsPurePrice(t)
    /\ \A term \in TitleNoise1 : ~HasTerm(t, term)

\* A validity predicate that tests the length only.
ValidTitle2_LengthOnly(t) == TitleLength(LineLen(t))

\* The validity predicate of strategy 2 (lines of the element's own text).
ValidTitle2(t) ==
    /\ TitleLength(LineLen(t))
    /\ ~StartsWithPrice(t)
    /\ \A term \in TitleNoise2 : ~HasTerm(t, term)
    /\ SumWords(t, 1) >= 2

TitleStrategy1(e) ==
    IF "T1" \in e.fails THEN NULL
    ELSE LET i == FirstTrue([k \in 1..Len(e.headings) |-> ValidTitle1(e.headings[k])], 1)
         IN IF i = 0 THEN NULL ELSE Truncate150(e.headings[i])

TitleStrategy2(e) ==
    IF "T2" \in e.fails THEN NULL
    ELSE LET i == FirstTrue([k \in 1..Len(e.text) |-> ValidTitle2(e.text[k])], 1)
         IN IF i = 0 THEN NULL ELSE Truncate150(e.text[i])

\* Strategy 2b: the text of the element when it is itself a link.
TitleStrategy2b(e) ==
    IF e.tag # "a" \/ "T2b" \in e.fails THEN NULL
    ELSE IF /\ Len(e.text) > 0
            /\ TitleLength(FullTextLen(e))
            /\ ~(Len(e.text) = 1 /\ IsPurePrice(e.text[1]))
         THEN IF Len(e.text) = 1 THEN Truncate150(e.text[1]) ELSE FullText(e)
         ELSE NULL

\* Strategies 3 and 4: the aria-label and title attributes.
TitleFromAttr(a) ==
    IF Truthy(a) /\ TitleLength(LineLen(a)) THEN Truncate150(a) ELSE NULL

TitleStrategy3(e) == IF "T3" \in e.fails THEN NULL ELSE TitleFromAttr(e.aria_label)

TitleStrategy4(e) == IF "T4" \in e.fails THEN NULL ELSE TitleFromAttr(e.title_attr)

\* The title after strategies 1 and 2, before the unguarded tag test of line 1306.
TitleEarly(e) == FirstSet(<<TitleStrategy1(e), TitleStrategy2(e)>>, 1)

\* The strategies that run once line 1306 has been passed.
TitleLate(e) == FirstSet(<<TitleStrategy2b(e), TitleStrategy3(e), TitleStrategy4(e)>>, 1)

----------------------------------------------------------------------------
(* extract_product_data: price strategies *)

\* re.search(r'\$[\d,]+\.?\d*', text).group(), NULL when there is no match.
StdPrice(t) ==
    LET isPrice(f) == f \in PriceFrags
        i == FirstTrue([k \in 1..Len(t) |-> isPrice(t[k])], 1)
    IN IF i = 0 THEN NULL ELSE <<t[i]>>

\* re.search(r'\$\s*[\d,]+\.?\d*', text): a dollar sign, white space, an amount.
SpacedPrice(t) ==
    LET hit(i) == /\ t[i] = "$"
                  /\ \/ i + 1 <= Len(t) /\ t[i + 1] \in AmountFrags
                     \/ i + 2 <= Len(t) /\ t[i + 1] = "\n" /\ t[i + 2] \in AmountFrags
        S == {i \in 1..Len(t) : hit(i)}
    IN IF S = {} THEN NULL
       ELSE LET i == CHOOSE k \in S : \A j \in S : k <= j
            IN IF t[i + 1] = "\n" THEN SubSeq(t, i, i + 2) ELSE SubSeq(t, i, i + 1)

\* re.search(r'[\d,]+\.?\d*\s*\$', text): an amount, white space, a dollar sign.
ReversedPrice(t) ==
    LET hit(i) == /\ t[i] \in AmountFrags
                  /\ \/ i + 1 <= Len(t) /\ t[i + 1] = "$"
                     \/ i + 2 <= Len(t) /\ t[i + 1] = "\n" /\ t[i + 2] = "$"
        S == {i \in 1..Len(t) : hit(i)}
    IN IF S = {} THEN NULL
       ELSE LET i == CHOOSE k \in S : \A j \in S : k <= j
            IN IF t[i + 1] = "\n" THEN SubSeq(t, i, i + 2) ELSE SubSeq(t, i, i + 1)

\* The first text of a list that holds a standard price, as that price.
FirstStdPrice(texts) ==
    FirstSet([i \in 1..Len(texts) |-> IF Truthy(texts[i]) THEN StdPrice(texts[i]) ELSE NULL], 1)

PriceStrategy1(e) == IF "P1" \in e.fails THEN NULL ELSE FirstStdPrice(e.price_elems)

PriceStrategy2(e) ==
    IF "P2" \in e.fails \/ Len(e.text) = 0 THEN NULL
    ELSE LET all_text == FullText(e)
         IN FirstSet(<<StdPrice(all_text), SpacedPrice(all_text), ReversedPrice(all_text)>>, 1)

PriceStrategy3(e) ==
    IF "P3" \in e.fails \/ ~Truthy(e.inner_html) THEN NULL ELSE StdPrice(e.inner_html)

PriceStrategy4(e) == IF "P4" \in e.fails THEN NULL ELSE FirstStdPrice(e.children)

Price(e) ==
    FirstSet(<<PriceStrategy1(e), PriceStrategy2(e), PriceStrategy3(e), PriceStrategy4(e)>>, 1)

----------------------------------------------------------------------------
(* extract_product_data: image strategies *)

\* img_src and img_src.strip() and img_src != 'null' and img_src != 'undefined'
UsableSrc(v) == Truthy(v) /\ v # <<"null">> /\ v # <<"undefined">>

\* str(img_src).split(',')[0].strip().split(' ')[0] when ',' is in img_src
FirstOfSrcset(v) ==
    IF ~Contains(v, ",") THEN v
    ELSE LET isComma(f) == f = ","
             c == FirstTrue([k \in 1..Len(v) |-> isComma(v[k])], 1)
             head == SubSeq(v, 1, c - 1)
             isSpace(f) == f = " "
             b == FirstTrue([k \in 1..Len(head) |-> isSpace(head[k])], 1)
         IN IF b = 0 THEN head ELSE SubSeq(head, 1, b - 1)

SkipKeywords == {"placeholder", "logo", "icon", "sprite", "1x1", "blank"}

\* The value of the first usable attribute of an <img>, in the attribute order of line 1417.
ImgAttrValue(img) ==
    LET i == FirstTrue([k \in 1..Len(img.attrs) |-> UsableSrc(img.attrs[k])], 1)
    IN IF i = 0 THEN NULL ELSE img.attrs[i]

\* What strategy 1 makes of one <img>: NULL when it has no usable or only a denylisted value.
ImgCandidate1(img) ==
    LET v == ImgAttrValue(img)
        u == Absolutize(FirstOfSrcset(v))
    IN IF ~Truthy(v) THEN NULL
       ELSE IF \E k \in SkipKeywords : Contains(u, k) THEN NULL ELSE u

ImageStrategy1(e) ==
    IF "I1" \in e.fails THEN NULL
    ELSE FirstSet([i \in 1..Len(e.imgs) |-> ImgCandidate1(e.imgs[i])], 1)

\* src or data-src or srcset of a picture img / picture source
PictureValue(p) == FirstSet(<<p.src, p.data_src, p.srcset>>, 1)

PictureCandidate(p) ==
    LET v == PictureValue(p)
        u == Absolutize(FirstOfSrcset(v))
    IN IF ~Truthy(v) THEN NULL
       ELSE IF Contains(u, "placeholder") \/ Contains(u, "logo") THEN NULL ELSE u

ImageStrategy2(e) ==
    IF "I2" \in e.fails THEN NULL
    ELSE FirstSet([i \in 1..Len(e.pictures) |-> PictureCandidate(e.pictures[i])], 1)

\* src or data-src or data-lazy-src of an <img> (the first three attributes)
LargestValue(img) == FirstSet(SubSeq(img.attrs, 1, 3), 1)

\* The loop of lines 1467-1485 from image i on, with the running best_img and best_size.
RECURSIVE LargestFrom(_, _, _, _)
LargestFrom(imgs, i, best_img, best_size) ==
    IF i > Len(imgs) THEN best_img
    ELSE LET img == imgs[i]
             v == LargestValue(img)
         IN IF ~Truthy(v) THEN LargestFrom(imgs, i + 1, best_img, best_size)
            ELSE IF ~img.size_ok
                 THEN LargestFrom(imgs, i + 1, IF Truthy(best_img) THEN best_img ELSE v, best_size)
            ELSE IF img.w * img.h > best_size /\ ~Contains(v, "placeholder")
                 THEN LargestFrom(imgs, i + 1, v, img.w * img.h)
            ELSE LargestFrom(imgs, i + 1, best_img, best_size)

ImageStrategy2b(e) ==
    IF "I2b" \in e.fails THEN NULL
    ELSE LET best == LargestFrom(e.imgs, 1, NULL, 0)
         IN IF Truthy(best) THEN Absolutize(best) ELSE NULL

\* Strategy 3: url(...) of the inline style attribute.
ImageStrategy3(e) ==
    IF "I3" \in e.fails \/ ~Truthy(e.style_url) THEN NULL ELSE Absolutize(e.style_url)

Image(e) ==
    FirstSet(<<ImageStrategy1(e), ImageStrategy2(e), ImageStrategy2b(e), ImageStrategy3(e)>>, 1)

----------------------------------------------------------------------------
(* extract_product_data *)

EmptyProduct ==
    [product_title |-> NULL, product_price |-> NULL,
     product_image |-> NULL, product_hyperlink |-> NULL]

\* The body of the outer try of extract_product_data: the product dict as it stands when
\* the body ends, and whether it ended by an exception from one of the calls made outside
\* every inner try (lines 1183-1184, 1188, 1189 and 1306).
ExtractBody(e, index) ==
    IF \/ index < 3 /\ "probe" \in e.fails
       \/ "tag" \in e.fails
       \/ e.tag = "a" /\ "href" \in e.fails
    THEN [product |-> EmptyProduct, exc |-> TRUE]
    ELSE LET link == Hyperlink(e)
             early == TitleEarly(e)
         IN IF ~Truthy(early) /\ "tag2" \in e.fails
            THEN [product |-> [EmptyProduct EXCEPT !.product_hyperlink = link], exc |-> TRUE]
            ELSE [product |-> [product_title |-> FirstSet(<<early, TitleLate(e)>>, 1),
                               product_price |-> Price(e),
                               product_image |-> Image(e),
                               product_hyperlink |-> link],
                  exc |-> FALSE]

\* A variant without the outer except clause of line 1515.
extract_product_data_uncaught(e, index) ==
    LET body == ExtractBody(e, index)
    IN [product |-> body.product, raised |-> body.exc]

\* extract_product_data(element, index): the outer except swallows the exception and the
\* function returns the product dict as it stands.
extract_product_data(e, index) ==
    [product |-> ExtractBody(e, index).product, raised |-> FALSE]

----------------------------------------------------------------------------
(* extract_products: the extraction loop over the located candidates *)

\* A variant that counts the hyperlink as essential data.
HasEssentialData_AnyField(p) ==
    \/ Truthy(p.product_title) \/ Truthy(p.product_price)
    \/ Truthy(p.product_image) \/ Truthy(p.product_hyperlink)

\* has_essential_data: a title, a price or an image
HasEssentialData(p) ==
    Truthy(p.product_title) \/ Truthy(p.product_price) \/ Truthy(p.product_image)

\* A variant that tests the category path only.
IsCategory_CategoryOnly(p) ==
    Truthy(p.product_hyperlink) /\ Contains(p.product_hyperlink, "/category/")

\* is_category: the hyperlink holds a category, department or shop path
IsCategory(p) == Truthy(p.product_hyperlink) /\ IsCategoryUrl(p.product_hyperlink)

\* unique_key = product_url if product_url else product_title
UniqueKey(p) ==
    IF Truthy(p.product_hyperlink) THEN p.product_hyperlink ELSE p.product_title

\* if product_data and has_essential_data and not is_category
Acceptable(p) == HasEssentialData(p) /\ ~IsCategory(p)

\* reason = "category link" if is_category else "no essential data"
SkipReason(p) == IF IsCategory(p) THEN "category link" ELSE "no essential data"

\* A variant without the test that there is a key.
IsNewKey_NoKeyTest(key, seen) == key \notin seen

\* A variant without the membership test.
IsNewKey_NoSeenTest(key, seen) == Truthy(key)

\* if unique_key and unique_key not in self.seen_urls
IsNewKey(key, seen) == Truthy(key) /\ key \notin seen

\* One iteration of the loop of lines 1136-1168, r being what extract_product_data did
\* for the candidate: the products list and self.seen_urls after it.
LoopBody(r, acc, seen) ==
    LET p == r.product
    IN IF r.raised THEN [products |-> acc, seen |-> seen]
       ELSE IF Acceptable(p) /\ IsNewKey(UniqueKey(p), seen)
            THEN [products |-> Append(acc, p), seen |-> seen \cup {UniqueKey(p)}]
       ELSE [products |-> acc, seen |-> seen]

\* The loop from candidate i on (index i - 1).
RECURSIVE ExtractLoop(_, _, _, _)
ExtractLoop(cands, i, acc, seen) ==
    IF i > Len(cands) THEN [products |-> acc, seen |-> seen]
    ELSE LET s == LoopBody(extract_product_data(cands[i], i - 1), acc, seen)
         IN ExtractLoop(cands, i + 1, s.products, s.seen)

\* extract_products(max_products=None) over the candidates the locator found:
\* the products it returns and self.seen_urls afterwards.
extract_products(cands, seen) == ExtractLoop(cands, 1, << >>, seen)

----------------------------------------------------------------------------
(* scrape_category_page: the two passes *)

\* existing_urls = {p.get('product_hyperlink') for p in self.products if ...}
HyperlinksOf(list) ==
    {list[i].product_hyperlink : i \in {j \in 1..Len(list) : Truthy(list[j].product_hyperlink)}}

\* A variant that collects the hyperlinks again (existing_titles built from the wrong key).
TitlesOf_FromHyperlink(list) == HyperlinksOf(list)

\* existing_titles = {p.get('product_title') for p in self.products if p.get('product_title')}
TitlesOf(list) ==
    {list[i].product_title : i \in {j \in 1..Len(list) : Truthy(list[j].product_title)}}

\* A variant with "and" for "or".
IsNewInPass2_Both(p, existing_urls, existing_titles) ==
    /\ Truthy(p.product_hyperlink) /\ p.product_hyperlink \notin existing_urls
    /\ Truthy(p.product_title) /\ p.product_title \notin existing_titles

\* (url and url not in existing_urls) or (title and title not in existing_titles)
IsNewInPass2(p, existing_urls, existing_titles) ==
    \/ Truthy(p.product_hyperlink) /\ p.product_hyperlink \notin existing_urls
    \/ Truthy(p.product_title) /\ p.product_title \notin existing_titles

\* The loop of lines 255-263 from record i of products_pass2 on.
RECURSIVE FilterPass2(_, _, _, _, _)
FilterPass2(pass2, i, existing_urls, existing_titles, new_products) ==
    IF i > Len(pass2) THEN new_products
    ELSE LET p == pass2[i]
         IN IF IsNewInPass2(p, existing_urls, existing_titles)
            THEN FilterPass2(pass2, i + 1,
                     IF Truthy(p.product_hyperlink)
                         THEN existing_urls \cup {p.product_hyperlink} ELSE existing_urls,
                     IF Truthy(p.product_title)
                         THEN existing_titles \cup {p.product_title} ELSE existing_titles,
                     Append(new_products, p))
            ELSE FilterPass2(pass2, i + 1, existing_urls, existing_titles, new_products)

\* Lines 250-266: self.products after products_pass2 has been merged into it.
MergePass2(prods, pass2) ==
    prods \o FilterPass2(pass2, 1, HyperlinksOf(prods), TitlesOf(prods), << >>)

----------------------------------------------------------------------------
(* The DOM elements the model draws candidates from *)

MaxCands == 3      \* candidates per extraction pass
PageVisits == 1    \* scrape_homepage calls scrape_category_page once (line 291)
MaxIndex == 3      \* largest index passed to extract_product_data
MaxLinks == 2      \* descendant links of an element

UrlA == <<"https://", "heb.com", "/p/", "1">>
UrlB == <<"https://", "heb.com", "/p/", "2">>
RelC == <<"/p/", "3">>
BareD == <<"p/", "4">>
UrlCat == <<"https://", "heb.com", "/category/", "dairy">>
RelDept == <<"/department/", "bakery">>
UrlMention == <<"https://", "evil.com", "/r/", "heb.com">>
UrlOther == <<"https://", "evil.com", "/p/", "1">>
Schemeless == <<"heb.com", "/p/", "5">>

TBrand == <<"Brand", "X", "Cereal", "12oz">>
TMilk == <<"Milk", "12oz">>

ImgTag(src) ==
    [attrs |-> <<src, NULL, NULL, NULL, NULL, NULL, NULL>>, w |-> 200, h |-> 200, size_ok |-> TRUE]

\* An element with no attribute, no text and no descendant.
Bare ==
    [tag |-> "div", href |-> NULL, links |-> << >>, onclick |-> << >>, fails |-> {},
     headings |-> << >>, text |-> << >>, aria_label |-> NULL, title_attr |-> NULL,
     price_elems |-> << >>, inner_html |-> << >>, children |-> << >>,
     imgs |-> << >>, pictures |-> << >>, style_url |-> NULL]

CallSites ==
    {"probe", "tag", "href", "tag2", "S2", "S3", "S4", "T1", "T2", "T2b", "T3", "T4",
     "P1", "P2", "P3", "P4", "I1", "I2", "I2b", "I3"}

\* A product card: link A, title, price and image.
ElemA ==
    [Bare EXCEPT !.links = <<UrlA>>, !.headings = <<TBrand>>,
                 !.text = <<TBrand, <<"$12.99">>>>, !.price_elems = <<<<"$12.99">>>>,
                 !.imgs = <<ImgTag(<<"/img/", "a.jpg">>)>>]

\* Another card with the same link A and another title.
ElemA2 == [Bare EXCEPT !.links = <<UrlA>>, !.headings = <<TMilk>>]

\* A link element with a relative href, its text as title, and an image.
ElemC ==
    [Bare EXCEPT !.tag = "a", !.href = RelC, !.text = <<TMilk>>,
                 !.imgs = <<ImgTag(<<"/img/", "c.jpg">>)>>]

\* Cards with the links B and D; the card of D renders the title of the card of A.
ElemB ==
    [Bare EXCEPT !.links = <<UrlB>>, !.headings = <<<<"Soup", "12oz">>>>,
                 !.price_elems = <<<<"$3.50">>>>]

ElemD == [Bare EXCEPT !.links = <<BareD>>, !.headings = <<TBrand>>]

\* Two cards without any link that render the same title.
ElemT == [Bare EXCEPT !.headings = <<TBrand>>, !.price_elems = <<<<"$3.50">>>>]

ElemT2 == [Bare EXCEPT !.text = <<TBrand>>, !.imgs = <<ImgTag(<<"/img/", "t.jpg">>)>>]

\* A category tile: title and image, its first link a category link.
ElemCat ==
    [Bare EXCEPT !.links = <<UrlCat>>, !.headings = <<TMilk>>,
                 !.imgs = <<ImgTag(<<"/img/", "d.jpg">>)>>]

\* A titled element whose only link comes from its click handler, a shop link.
ElemShop ==
    [Bare EXCEPT !.onclick = <<<<"https://", "heb.com", "/shop/", "deals">>>>,
                 !.headings = <<TBrand>>]

\* A link element with a relative department href, its text as title.
ElemDept == [Bare EXCEPT !.tag = "a", !.href = RelDept, !.text = <<TMilk>>]

\* An element with a product link and nothing else.
ElemLinkOnly == [Bare EXCEPT !.links = <<UrlB>>]

\* An element whose only text is a price.
ElemPriceOnly == [Bare EXCEPT !.text = <<<<"$12.99">>>>]

\* A stale element: every browser call on it raises.
ElemStale == [ElemA EXCEPT !.fails = CallSites]

PageElements ==
    {ElemA, ElemA2, ElemB, ElemC, ElemD, ElemT, ElemT2, ElemCat, ElemShop, ElemDept,
     ElemLinkOnly, ElemPriceOnly, ElemStale}

\* extract_product_data on every element a page can hold, at every index of a pass
\* (a table of the calls the extraction loop makes).
ExtractedAt == [e \in PageElements, i \in 0..MaxCands |-> extract_product_data(e, i)]

----------------------------------------------------------------------------
(* The state the program starts in *)

ExtInit ==
    /\ ex_elem = Bare
    /\ ex_index = 0
    /\ ex_result = [product |-> EmptyProduct, raised |-> FALSE]
    /\ ex_pc = "idle"

AccInit ==
    /\ products = << >>
    /\ seen_urls = {}
    /\ pc = "idle"
    /\ visits = 0
    /\ idx = 0
    /\ pass_products = << >>
    /\ skipped = {}
    /\ raw_links1 = {}
    /\ raw_links2 = {}
    /\ raw_titles = {}
    /\ dup_titles = {}
    /\ links_before = {}

ScInit ==
    /\ sc_pc = "idle"
    /\ last_height = 0
    /\ last_product_count = 0
    /\ scrolls = 0
    /\ no_change_count = 0
    /\ no_product_change_count = 0
    /\ sc_steps = 0
    /\ late_images = FALSE
    /\ esc_streak = -1
    /\ static_page = FALSE

MainInit ==
    /\ m_pc = "start"
    /\ scraper = FALSE
    /\ driver = "none"
    /\ quits = 0
    /\ m_products = << >>
    /\ exports = 0

LocInit ==
    /\ loc_pc = "idle"
    /\ page = << >>
    /\ product_elements = << >>
    /\ seen_element_ids = {}
    /\ tier_log = << >>

CarInit ==
    /\ car_pc = "idle"
    /\ carousels = << >>
    /\ car_i = 0
    /\ car_done = << >>
    /\ car_nodes = << >>
    /\ ct_pc = "idle"
    /\ client_width = 0
    /\ scroll_width = 0
    /\ ct_left = 0
    /\ ct_fixed = FALSE
    /\ clicks = 0
    /\ h_scrolls = 0
    /\ ct_clicked = 0
    /\ shown = {}

Init == AccInit /\ ExtInit /\ ScInit /\ MainInit /\ LocInit /\ CarInit

----------------------------------------------------------------------------
(* scroll_page: the main loop over what the browser reports *)

max_scrolls == 7              \* the max_scrolls argument
MaxHeight == 2                \* document heights the browser reports: 0..MaxHeight
MaxImages == 2                \* image counts the browser reports: 0..MaxImages
NoChangeLimit == 5            \* line 557: no_change_count >= 5
NoProductChangeLimit == 5     \* line 569: no_product_change_count >= 5

Heights == 0..MaxHeight

\* What one iteration reads from the browser: the height of line 539, the image count of
\* line 543 (img_ok is FALSE when find_elements raises) and the heights of lines 561, 567;
\* imgs3 is the number of images on the page after the scroll of line 565, which the code
\* does not read.
Observations ==
    [h1 : Heights, img_ok : BOOLEAN, imgs : 0..MaxImages, h2 : Heights, h3 : Heights,
     imgs3 : 0..MaxImages]

\* Lines 542-552: the image count against last_product_count.
CountImages(count, streak, o) ==
    IF ~o.img_ok THEN [count |-> count, streak |-> streak]
    ELSE IF o.imgs > count THEN [count |-> o.imgs, streak |-> 0]
    ELSE [count |-> count, streak |-> streak + 1]

\* Lines 554-581: the height against last_height, with the two re-checks after
\* NoChangeLimit iterations without change; brk is the break of line 572.
CompareHeight(last, streak, img_streak, o) ==
    IF o.h1 # last
    THEN [new_height |-> o.h1, streak |-> 0, img_streak |-> 0, brk |-> FALSE]
    ELSE IF streak + 1 < NoChangeLimit
    THEN [new_height |-> o.h1, streak |-> streak + 1, img_streak |-> img_streak, brk |-> FALSE]
    ELSE IF o.h2 # last
    THEN [new_height |-> o.h2, streak |-> 0, img_streak |-> 0, brk |-> FALSE]
    ELSE IF o.h3 = last /\ img_streak >= NoProductChangeLimit
    THEN [new_height |-> o.h3, streak |-> streak + 1, img_streak |-> img_streak, brk |-> TRUE]
    ELSE [new_height |-> o.h3, streak |-> 0, img_streak |-> 0, brk |-> FALSE]

\* Lines 554-569: the iteration reaches the test of line 569, and the page has more images
\* after the two re-check scrolls (lines 559, 565) than it had at line 543.
GrewInRechecks(last, streak, o) ==
    /\ o.h1 = last /\ streak + 1 >= NoChangeLimit /\ o.h2 = last
    /\ o.imgs3 > o.imgs

\* Lines 554-557: the iteration enters the branch of the two re-checks.
Escalates(last, streak, o) == o.h1 = last /\ streak + 1 >= NoChangeLimit

\* The page is the same at every reading of an iteration: the height is last_height at
\* lines 539, 561 and 567, and the image count is one non-zero number (in the first
\* iteration any, afterwards the count of last_product_count).
StaticReading(last, count, first, o) ==
    /\ o.h1 = last /\ o.h2 = last /\ o.h3 = last
    /\ o.img_ok /\ o.imgs > 0 /\ (first \/ o.imgs = count)
    /\ o.imgs3 = o.imgs

\* A variant of the loop that does not count its iterations.
AdvanceScrolls_Missing(n) == n

\* Line 584: scrolls += 1
AdvanceScrolls(n) == n + 1

\* Line 501: while scrolls < max_scrolls
LoopContinues(n) == n < max_scrolls

\* Lines 484-498: the locals are set and the first scroll is made.
ScrollBegin ==
    /\ sc_pc = "idle"
    /\ \E h \in Heights : last_height' = h
    /\ last_product_count' = 0
    /\ scrolls' = 0
    /\ no_change_count' = 0
    /\ no_product_change_count' = 0
    /\ sc_steps' = 0
    /\ late_images' = FALSE
    /\ esc_streak' = -1
    /\ static_page' = TRUE
    /\ sc_pc' = "loop"
    /\ UNCHANGED <<accVars, extVars, restVars>>

\* Lines 501-584: one iteration of the main loop.
ScrollStep ==
    /\ sc_pc = "loop"
    /\ LoopContinues(scrolls)
    /\ \E o \in Observations :
          LET img == CountImages(last_product_count, no_product_change_count, o)
              cmp == CompareHeight(last_height, no_change_count, img.streak, o)
          IN /\ last_product_count' = img.count
             /\ no_change_count' = cmp.streak
             /\ no_product_change_count' = cmp.img_streak
             /\ late_images' = GrewInRechecks(last_height, no_change_count, o)
             /\ esc_streak' = IF Escalates(last_height, no_change_count, o) THEN img.streak ELSE -1
             /\ static_page' = (static_page /\ StaticReading(last_height, last_product_count, sc_steps = 0, o))
             /\ IF cmp.brk
                THEN /\ sc_pc' = "final"
                     /\ UNCHANGED <<last_height, scrolls>>
                ELSE /\ sc_pc' = "loop"
                     /\ last_height' = cmp.new_height
                     /\ scrolls' = AdvanceScrolls(scrolls)
    /\ sc_steps' = IF sc_steps > max_scrolls THEN sc_steps ELSE sc_steps + 1
    /\ UNCHANGED <<accVars, extVars, restVars>>

\* Lines 503, 505, 539, 559-567: execute_script raises inside an iteration; no handler of
\* scroll_page encloses these calls, the exception leaves the function.
ScrollRaise ==
    /\ sc_pc = "loop"
    /\ LoopContinues(scrolls)
    /\ sc_pc' = "raised"
    /\ sc_steps' = IF sc_steps > max_scrolls THEN sc_steps ELSE sc_steps + 1
    /\ late_images' = FALSE
    /\ esc_streak' = -1
    /\ static_page' = FALSE
    /\ UNCHANGED <<last_height, last_product_count, scrolls, no_change_count,
                   no_product_change_count, accVars, extVars, restVars>>

\* Line 501: the loop condition fails.
ScrollExit ==
    /\ sc_pc = "loop"
    /\ ~LoopContinues(scrolls)
    /\ sc_pc' = "final"
    /\ UNCHANGED <<last_height, last_product_count, scrolls, no_change_count,
                   no_product_change_count, sc_steps, late_images, esc_streak, static_page,
                   accVars, extVars, restVars>>

\* Lines 586-601: the final scrolls, then the function returns; the execute_script calls of
\* lines 588, 594 and 597 are outside every try.
ScrollFinish ==
    /\ sc_pc = "final"
    /\ sc_pc' \in {"done", "aborted"}
    /\ UNCHANGED <<last_height, last_product_count, scrolls, no_change_count,
                   no_product_change_count, sc_steps, late_images, esc_streak, static_page,
                   accVars, extVars, restVars>>

NextScroll == ScrollBegin \/ ScrollStep \/ ScrollRaise \/ ScrollExit \/ ScrollFinish

SpecScroll == Init /\ [][NextScroll]_vars

\* The calls of the loop return or raise, and the statements run one after the other.
SpecScrollFair == SpecScroll /\ WF_vars(ScrollStep) /\ WF_vars(ScrollExit)

----------------------------------------------------------------------------
(* extract_products: the search for product elements (lines 829-1098).       *)
(* A DOM node is a record; a handle is the WebElement object one query       *)
(* returned for a node: every query builds new objects, id(elem) is the      *)
(* identity of the object, elem == other compares the nodes.                 *)

\* Some of the selectors of product_selectors, in their order (lines 829-858).
product_selectors ==
    <<"[data-testid*='product']", "div[class*='product-card']", "a[href*='/p/']">>

\* The name of no node.
NoNode == <<"none", 0, 0>>

\* A node that no query matches.
PlainNode ==
    [node |-> NoNode, tag |-> "div", sels |-> {}, href |-> NULL, has_img |-> FALSE, text_len |-> 0,
     has_price |-> FALSE, has_link |-> FALSE, big |-> FALSE, price_elem |-> FALSE,
     card_of |-> NoNode, product_link |-> FALSE]

\* The objects a query returns for the nodes it matches, in document order.
Handles(query, nodes) == [j \in 1..Len(nodes) |-> [node |-> nodes[j], obj |-> <<query, j>>]]

\* seq[:n]
FirstN(seq, n) == IF Len(seq) <= n THEN seq ELSE SubSeq(seq, 1, n)

\* The objects of a list, and the nodes they stand for.
ObjectsOf(list) == {list[i].obj : i \in 1..Len(list)}

NodesOf(list) == {list[i].node.node : i \in 1..Len(list)}

\* Lines 915-922 and 1048-1055: the first entry of every object, in order.
RECURSIVE UniqueById(_, _, _, _)
UniqueById(list, i, seen, unique_elements) ==
    IF i > Len(list) THEN unique_elements
    ELSE IF list[i].obj \in seen THEN UniqueById(list, i + 1, seen, unique_elements)
    ELSE UniqueById(list, i + 1, seen \cup {list[i].obj}, Append(unique_elements, list[i]))

\* Lines 937-941, 947-951, 988-992, 1037-1041: for elem in source (from position i), append
\* elem to the list when id(elem) is not in the seen set, and add the id.
RECURSIVE AppendUnseen(_, _, _, _)
AppendUnseen(source, i, list, seen) ==
    IF i > Len(source) THEN [list |-> list, seen |-> seen]
    ELSE IF source[i].obj \in seen THEN AppendUnseen(source, i + 1, list, seen)
    ELSE AppendUnseen(source, i + 1, Append(list, source[i]), seen \cup {source[i].obj})

\* A variant in which everything in the list counts as seen before the loop starts.
AppendUnseenToSelf_AllSeen(list, i, seen) == [list |-> list, seen |-> seen \cup ObjectsOf(list)]

\* Lines 947-951: the same loop running over product_elements itself, which grows while
\* the loop runs over it.
RECURSIVE AppendUnseenToSelf(_, _, _)
AppendUnseenToSelf(list, i, seen) ==
    IF i > Len(list) THEN [list |-> list, seen |-> seen]
    ELSE IF list[i].obj \in seen THEN AppendUnseenToSelf(list, i + 1, seen)
    ELSE AppendUnseenToSelf(Append(list, list[i]), i + 1, seen \cup {list[i].obj})

\* Lines 880-892: the link of an element targets a category, department or shop path.
HasCategoryHref(n) == Truthy(n.href) /\ IsCategoryUrl(n.href)

\* Lines 875-905: what the cascade does with one match.  has_text is a local of
\* extract_products that is first assigned at line 976, so reading it at line 901 raises;
\* `has_img and (...)` reads it exactly when has_img is true, and the except of line 904
\* moves on to the next match.
CascadeOutcome(h, seen) ==
    IF h.obj \in seen THEN "seen"
    ELSE IF HasCategoryHref(h.node) THEN "category"
    ELSE IF h.node.has_img THEN "raised"
    ELSE "rejected"

\* Lines 865-911: the matches of all selectors that the filter keeps.
RECURSIVE CascadeFrom(_, _, _, _)
CascadeFrom(pg, k, list, seen) ==
    IF k > Len(product_selectors) THEN [list |-> list, seen |-> seen]
    ELSE LET matches(n) == product_selectors[k] \in n.sels
             elements == Handles(product_selectors[k], SelectSeq(pg, matches))
             keep(h) == CascadeOutcome(h, seen) = "kept"
             filtered_elements == SelectSeq(elements, keep)
         IN CascadeFrom(pg, k + 1, list \o filtered_elements,
                        seen \cup ObjectsOf(filtered_elements))

\* Lines 930-943: the nearest card, tile or item ancestor of every price container that has
\* one (find_element raises for the others), a new object for every container.
NodeAt(pg, id) == pg[CHOOSE i \in 1..Len(pg) : pg[i].node = id]

PriceParents(pg) ==
    LET isPrice(n) == n.price_elem
        price_containers == FirstN(SelectSeq(pg, isPrice), 100)
        hasCard(n) == n.card_of # NoNode
        found == SelectSeq(price_containers, hasCard)
    IN [j \in 1..Len(found) |-> [node |-> NodeAt(pg, found[j].card_of), obj |-> <<"price", j>>]]

\* Lines 930-951 (the body of the try of the price tier).
PriceTier(pg, list, seen) ==
    LET with_parents == AppendUnseen(PriceParents(pg), 1, list, {}).list
    IN IF Len(with_parents) = 0 THEN [list |-> with_parents, seen |-> seen]
       ELSE AppendUnseenToSelf(with_parents, 1, seen)

\* Lines 966-984: the links appended to product_links.
LinkQualifies(n) ==
    /\ ~(Truthy(n.href) /\ IsCategoryUrl(n.href))
    /\ n.has_img /\ (n.text_len > 5 \/ n.has_price)
    /\ Truthy(n.href) /\ MentionsSite(n.href)

RECURSIVE ExtendLinks(_, _, _)
ExtendLinks(all_links, i, product_links) ==
    IF i > Len(all_links) THEN product_links
    ELSE IF LinkQualifies(all_links[i].node) /\ all_links[i].node.node \notin NodesOf(product_links)
         THEN ExtendLinks(all_links, i + 1, Append(product_links, all_links[i]))
    ELSE ExtendLinks(all_links, i + 1, product_links)

\* Lines 961-992 (the body of the try of the link tier).
LinkTier(pg, list, seen) ==
    LET isProductLink(n) == n.tag = "a" /\ n.product_link
        isLink(n) == n.tag = "a"
        product_links == ExtendLinks(Handles("links", SelectSeq(pg, isLink)), 1,
                                     Handles("product_links", SelectSeq(pg, isProductLink)))
    IN AppendUnseen(product_links, 1, list, seen)

\* Lines 1005-1033: an element of the block scan qualifies.
BlockQualifies(n) ==
    /\ ~(n.has_link /\ HasCategoryHref(n))
    /\ n.has_img /\ (n.text_len > 10 \/ n.has_price) /\ n.has_link
    /\ n.big

\* Lines 1002-1041 (the body of the try of the structure tier).
StructureTier(pg, list, seen) ==
    LET isBlock(n) == n.tag \in {"div", "article", "section", "li"}
        all_elements == FirstN(Handles("blocks", SelectSeq(pg, isBlock)), 500)
        qualifies(h) == BlockQualifies(h.node)
        potential_products == SelectSeq(all_elements, qualifies)
    IN AppendUnseen(FirstN(potential_products, 100), 1, list, seen)

\* Lines 1062-1077: the count the script returns.
ScriptCount(pg) ==
    LET hit(n) == /\ n.tag \in {"div", "article", "li", "a"}
                  /\ \/ n.has_img /\ n.text_len > 10 /\ (n.tag = "a" \/ n.has_link)
                     \/ n.has_price /\ n.text_len > 10
    IN Len(FirstN(SelectSeq(pg, hit), 200))

\* Lines 1079-1095 (the body of the try of the last tier).
BroadTier(pg, list, seen) ==
    IF ScriptCount(pg) = 0 THEN [list |-> list, seen |-> seen]
    ELSE LET isAny(n) == n.tag \in {"div", "article", "li", "a"}
             js_elements == FirstN(Handles("broad", SelectSeq(pg, isAny)), 200)
             qualifies(h) == h.node.has_img /\ h.node.text_len > 5
         IN AppendUnseen(SelectSeq(js_elements, qualifies), 1, list, seen)

\* The pages the search runs on: product cards, each with a link around its image and
\* some price elements, and other blocks.
MaxCards == 10

MaxPrices == 2

\* A product card: matched by a cascade selector, its class contains 'card'.
Card(i, pp) ==
    [PlainNode EXCEPT !.node = <<"card", i, 0>>, !.sels = {"div[class*='product-card']"},
                      !.href = UrlA, !.has_img = TRUE, !.text_len = 20, !.has_price = pp > 0,
                      !.has_link = TRUE, !.big = TRUE]

\* The link of a card, around its image and its name.
CardLink(i) ==
    [PlainNode EXCEPT !.node = <<"a", i, 0>>, !.tag = "a", !.sels = {"a[href*='/p/']"},
                      !.href = UrlA, !.has_img = TRUE, !.text_len = 14, !.product_link = TRUE]

\* A price element of a card.
PriceElement(i, j) ==
    [PlainNode EXCEPT !.node = <<"price", i, j>>, !.tag = "span", !.text_len = 5,
                      !.has_price = TRUE, !.price_elem = TRUE, !.card_of = <<"card", i, 0>>]

RECURSIVE Cards(_, _, _)
Cards(i, nc, pp) ==
    IF i > nc THEN << >>
    ELSE <<Card(i, pp), CardLink(i)>> \o [j \in 1..pp |-> PriceElement(i, j)] \o Cards(i + 1, nc, pp)

\* A product block without a link and without a price: a section with an image and a name.
Showcase ==
    [PlainNode EXCEPT !.node = <<"showcase", 0, 0>>, !.tag = "section",
                      !.sels = {"[data-testid*='product']"}, !.has_img = TRUE,
                      !.text_len = 20, !.big = TRUE]

\* A category tile and its link.
CategoryTile ==
    [PlainNode EXCEPT !.node = <<"tile", 0, 0>>, !.sels = {"div[class*='product-card']"},
                      !.href = UrlCat, !.has_img = TRUE, !.text_len = 12, !.has_link = TRUE,
                      !.big = TRUE]

CategoryLink ==
    [PlainNode EXCEPT !.node = <<"tile-a", 0, 0>>, !.tag = "a", !.href = UrlCat,
                      !.has_img = TRUE, !.text_len = 12]

Extras == {<< >>, <<Showcase>>, <<CategoryTile, CategoryLink>>,
           <<Showcase, CategoryTile, CategoryLink>>}

Pages == {Cards(1, nc, pp) \o extra : nc \in 0..MaxCards, pp \in 0..MaxPrices, extra \in Extras}

\* Lines 926, 957, 998 and 1058: the length below which a tier runs.
PriceBelow == 10

LinksBelow == 50

BlocksBelow == 30

BroadBelow == 20

\* One entry of the history of the search: the tier, whether it ran, and the list it found.
TierEntry(tier, ran) ==
    [tier |-> tier, ran |-> ran, length |-> Len(product_elements),
     unique |-> Cardinality(ObjectsOf(product_elements))]

\* The search begins on a page (lines 860-861).
LocateBegin ==
    /\ loc_pc = "idle"
    /\ \E pg \in Pages : page' = pg
    /\ loc_pc' = "cascade"
    /\ product_elements' = << >>
    /\ seen_element_ids' = {}
    /\ tier_log' = << >>
    /\ UNCHANGED <<accVars, extVars, scVars, mainVars, carVars>>

\* Lines 865-923: the cascade and the first removal of duplicates.
CascadeStep ==
    /\ loc_pc = "cascade"
    /\ LET r == CascadeFrom(page, 1, product_elements, seen_element_ids)
       IN /\ product_elements' = UniqueById(r.list, 1, {}, << >>)
          /\ seen_element_ids' = r.seen
    /\ loc_pc' = "price"
    /\ tier_log' = tier_log
    /\ UNCHANGED <<page, accVars, extVars, scVars, mainVars, carVars>>

\* One tier: it runs when the list is shorter than its threshold, and is skipped otherwise.
\* Lines 926-954.
PriceStep ==
    /\ loc_pc = "price"
    /\ LET ran == Len(product_elements) < PriceBelow
           r == PriceTier(page, product_elements, seen_element_ids)
       IN /\ product_elements' = IF ran THEN r.list ELSE product_elements
          /\ seen_element_ids' = IF ran THEN r.seen ELSE seen_element_ids
          /\ tier_log' = Append(tier_log, TierEntry("price", ran))
    /\ loc_pc' = "links"
    /\ UNCHANGED <<page, accVars, extVars, scVars, mainVars, carVars>>

\* Lines 957-995.
LinkStep ==
    /\ loc_pc = "links"
    /\ LET ran == Len(product_elements) < LinksBelow
           r == LinkTier(page, product_elements, seen_element_ids)
       IN /\ product_elements' = IF ran THEN r.list ELSE product_elements
          /\ seen_element_ids' = IF ran THEN r.seen ELSE seen_element_ids
          /\ tier_log' = Append(tier_log, TierEntry("links", ran))
    /\ loc_pc' = "blocks"
    /\ UNCHANGED <<page, accVars, extVars, scVars, mainVars, carVars>>

\* Lines 998-1055: the block scan and the final removal of duplicates.
BlockStep ==
    /\ loc_pc = "blocks"
    /\ LET ran == Len(product_elements) < BlocksBelow
           r == StructureTier(page, product_elements, seen_element_ids)
       IN /\ product_elements' = UniqueById(IF ran THEN r.list ELSE product_elements, 1, {}, << >>)
          /\ seen_element_ids' = IF ran THEN r.seen ELSE seen_element_ids
          /\ tier_log' = Append(tier_log, TierEntry("blocks", ran))
    /\ loc_pc' = "broad"
    /\ UNCHANGED <<page, accVars, extVars, scVars, mainVars, carVars>>

\* Lines 1058-1098.
BroadStep ==
    /\ loc_pc = "broad"
    /\ LET ran == Len(product_elements) < BroadBelow
           r == BroadTier(page, product_elements, seen_element_ids)
       IN /\ product_elements' = IF ran THEN r.list ELSE product_elements
          /\ seen_element_ids' = IF ran THEN r.seen ELSE seen_element_ids
          /\ tier_log' = Append(tier_log, TierEntry("broad", ran))
    /\ loc_pc' = "located"
    /\ UNCHANGED <<page, accVars, extVars, scVars, mainVars, carVars>>

\* Lines 1100-1170: the records are extracted from the list and the call is over.
LocateReturn ==
    /\ loc_pc = "located"
    /\ loc_pc' = "idle"
    /\ page' = << >>
    /\ product_elements' = << >>
    /\ seen_element_ids' = {}
    /\ tier_log' = << >>
    /\ UNCHANGED <<accVars, extVars, scVars, mainVars, carVars>>

NextLocate ==
    \/ LocateBegin
    \/ CascadeStep
    \/ PriceStep
    \/ LinkStep
    \/ BlockStep
    \/ BroadStep
    \/ LocateReturn

SpecLocate == Init /\ [][NextLocate]_vars

----------------------------------------------------------------------------
(* scroll_horizontal_carousels (lines 307-478) *)

MaxCarousels == 3

\* What the browser does with one container: it scrolls, it has nothing to scroll
\* (max_scroll <= 0), or one of the calls of lines 380-467 raises.
ContainerKinds == {"scrolls", "static", "fails"}

\* Some of the selectors of carousel_selectors, in their order (lines 313-325); the first
\* two match the same elements, the attribute test being case-insensitive.
carousel_selectors == <<"[class*='carousel' i]", "[class*='Carousel' i]", "[style*='overflow-x']">>

\* The containers of a page in document order: the selectors that match a container,
\* whether it holds a next control, and what the browser does with it.  A static
\* container has scroll_width <= client_width.
ContainerPages ==
    UNION {[1..n -> [sels : {{"[class*='carousel' i]", "[class*='Carousel' i]"},
                             {"[style*='overflow-x']"}, {}},
                     arrow : BOOLEAN, kind : ContainerKinds]] : n \in 0..MaxCarousels}

\* Lines 327-353: every match of every selector that overflows and has content wider than
\* its window is appended.
RECURSIVE BySelectors(_, _)
BySelectors(cs, k) ==
    IF k > Len(carousel_selectors) THEN << >>
    ELSE LET hits == {i \in 1..Len(cs) : carousel_selectors[k] \in cs[i].sels /\ cs[i].kind # "static"}
             RECURSIVE InOrder(_)
             InOrder(i) == IF i > Len(cs) THEN << >>
                           ELSE (IF i \in hits THEN <<i>> ELSE << >>) \o InOrder(i + 1)
         IN InOrder(1) \o BySelectors(cs, k + 1)

\* Lines 362-369: the ancestor of every next control is appended when it is not in the list.
RECURSIVE WithArrowParents(_, _, _)
WithArrowParents(cs, i, list) ==
    IF i > Len(cs) THEN list
    ELSE IF cs[i].arrow /\ ~\E j \in 1..Len(list) : list[j] = i
         THEN WithArrowParents(cs, i + 1, Append(list, i))
    ELSE WithArrowParents(cs, i + 1, list)

\* Lines 326-369: the list carousels, as positions of the page.
Discovered(cs) == WithArrowParents(cs, 1, BySelectors(cs, 1))

\* Lines 375-473: how the processing of one container ends.
ContainerOutcome(kind) ==
    IF kind = "fails" THEN "failed"
    ELSE IF kind = "static" THEN "skipped"
    ELSE "scrolled"

\* The position of the loop of line 374 after a container that stopped everything.
AfterContainer_Abort(i, n, kind) == IF kind = "fails" THEN n ELSE i + 1

\* Lines 374, 388 and 471-473: the loop goes on with the next container, after a normal
\* end, after `continue` and after the handler of the container's try.
AfterContainer(i, n, kind) == i + 1

\* Lines 311-372: the containers are collected; the query of line 356 is guarded by the
\* outer try only, and when it raises the handler of lines 477-478 ends the call.
CarBegin ==
    /\ car_pc = "idle"
    /\ \E cs \in ContainerPages, ok \in BOOLEAN :
          LET found == Discovered(cs)
          IN /\ carousels' = IF ok THEN [j \in 1..Len(found) |-> cs[found[j]].kind] ELSE << >>
             /\ car_nodes' = IF ok THEN found ELSE << >>
             /\ car_pc' = IF ok THEN "loop" ELSE "returned"
    /\ car_i' = 0
    /\ car_done' = << >>
    /\ UNCHANGED <<accVars, extVars, scVars, mainVars, locVars, ctVars>>

\* Lines 374-473: one container.
CarStep ==
    /\ car_pc = "loop"
    /\ car_i < Len(carousels)
    /\ car_done' = Append(car_done, ContainerOutcome(carousels[car_i + 1]))
    /\ car_i' = AfterContainer(car_i, Len(carousels), carousels[car_i + 1])
    /\ UNCHANGED <<car_pc, carousels, car_nodes, accVars, extVars, scVars, mainVars, locVars,
                   ctVars>>

\* Line 475: the loop is over.
CarFinish ==
    /\ car_pc = "loop"
    /\ car_i >= Len(carousels)
    /\ car_pc' = "returned"
    /\ UNCHANGED <<carousels, car_i, car_done, car_nodes, accVars, extVars, scVars, mainVars,
                   locVars, ctVars>>

\* The call is over.
CarReturn ==
    /\ car_pc = "returned"
    /\ car_pc' = "idle"
    /\ carousels' = << >>
    /\ car_i' = 0
    /\ car_done' = << >>
    /\ car_nodes' = << >>
    /\ UNCHANGED <<accVars, extVars, scVars, mainVars, locVars, ctVars>>

NextCarousel ==
    \/ CarBegin
    \/ CarStep
    \/ CarFinish
    \/ CarReturn

SpecCarousel == Init /\ [][NextCarousel]_vars

----------------------------------------------------------------------------
(* scroll_horizontal_carousels: one container (lines 375-470), in pixels *)

MaxWidths == 12

\* The widths of the window and of the content of a container.
ClientWidths == {100, 200}

ScrollWidths == {100 * k : k \in 1..MaxWidths}

\* How far one click on a next control moves the content: not at all, half a window, a window.
ClickAdvances == {0, 50, 100}

max_clicks == 20

max_horizontal_scrolls == 10

Tolerance == 10

\* The content offsets, in steps of 10 pixels, inside the window at a scroll position.
Window(left, width) == {x \in left..(left + width - 1) : x % 10 = 0}

Min(a, b) == IF a <= b THEN a ELSE b

\* Line 445: client_width * 0.9, and line 465: int(client_width * 0.8).
ScrollAmount(width) == (width * 9) \div 10

SweepStep(width) == (width * 8) \div 10

\* Line 465: range(0, int(max_scroll), int(client_width * 0.8))
SweepPositions(max_scroll, width) == {i \in 0..(max_scroll - 1) : i % SweepStep(width) = 0}

\* A loop that does not count its clicks.
CountClick_Missing(n) == n

\* Line 433: clicks += 1
CountClick(n) == n + 1

\* Lines 376-388: the container is measured; with nothing to scroll it is left at once.
ContainerBegin ==
    /\ ct_pc = "idle"
    /\ \E cw \in ClientWidths, sw \in ScrollWidths, fixed \in BOOLEAN :
          /\ client_width' = cw
          /\ scroll_width' = sw
          /\ ct_fixed' = fixed
          /\ ct_pc' = IF sw - cw <= 0 THEN "done" ELSE "clicking"
          /\ shown' = Window(0, cw)
    /\ ct_left' = 0
    /\ clicks' = 0
    /\ h_scrolls' = 0
    /\ ct_clicked' = 0
    /\ UNCHANGED <<foundVars, accVars, extVars, scVars, mainVars, locVars>>

\* Lines 412-437: one click on a next control and the test of the new position.
ClickStep ==
    /\ ct_pc = "clicking"
    /\ clicks < max_clicks
    /\ \E adv \in ClickAdvances :
          LET max_scroll == scroll_width - client_width
              new_scroll == Min(ct_left + adv, max_scroll)
          IN /\ ct_left' = new_scroll
             /\ shown' = shown \cup Window(new_scroll, client_width)
             /\ clicks' = IF new_scroll = ct_left THEN clicks ELSE CountClick(clicks)
             /\ ct_pc' = IF new_scroll = ct_left \/ new_scroll >= max_scroll - Tolerance
                         THEN "backstop" ELSE "clicking"
    /\ ct_clicked' = IF ct_clicked > max_clicks THEN ct_clicked ELSE ct_clicked + 1
    /\ UNCHANGED <<client_width, scroll_width, ct_fixed, h_scrolls, foundVars, accVars, extVars,
                   scVars, mainVars, locVars>>

\* Lines 412, 424-425 and 441-442: the clicks are used up, no control can be clicked, or a
\* call of the click block raises.
ClickEnd ==
    /\ ct_pc = "clicking"
    /\ ct_pc' = "backstop"
    /\ UNCHANGED <<client_width, scroll_width, ct_left, ct_fixed, clicks, h_scrolls, ct_clicked,
                   shown, foundVars, accVars, extVars, scVars, mainVars, locVars>>

\* Lines 450-462: one step of the programmatic scroll.
BackstopStep ==
    /\ ct_pc = "backstop"
    /\ ct_left < scroll_width - client_width
    /\ h_scrolls < max_horizontal_scrolls
    /\ LET max_scroll == scroll_width - client_width
           new_scroll == Min(ct_left + ScrollAmount(client_width), max_scroll)
           actual_scroll == IF ct_fixed THEN ct_left ELSE new_scroll
       IN /\ ct_left' = actual_scroll
          /\ shown' = shown \cup Window(actual_scroll, client_width)
          /\ h_scrolls' = IF actual_scroll = ct_left THEN h_scrolls ELSE h_scrolls + 1
          /\ ct_pc' = IF actual_scroll = ct_left THEN "sweep" ELSE "backstop"
    /\ UNCHANGED <<client_width, scroll_width, ct_fixed, clicks, ct_clicked, foundVars, accVars,
                   extVars, scVars, mainVars, locVars>>

\* Line 450: the condition of the loop fails.
BackstopEnd ==
    /\ ct_pc = "backstop"
    /\ ~(ct_left < scroll_width - client_width /\ h_scrolls < max_horizontal_scrolls)
    /\ ct_pc' = "sweep"
    /\ UNCHANGED <<client_width, scroll_width, ct_left, ct_fixed, clicks, h_scrolls, ct_clicked,
                   shown, foundVars, accVars, extVars, scVars, mainVars, locVars>>

\* Lines 465-467: the sweep over the positions of the range.
Sweep ==
    /\ ct_pc = "sweep"
    /\ LET positions == SweepPositions(scroll_width - client_width, client_width)
           last == CHOOSE i \in positions : \A j \in positions : j <= i
       IN IF ct_fixed
          THEN UNCHANGED <<ct_left, shown>>
          ELSE /\ ct_left' = last
               /\ shown' = shown \cup UNION {Window(i, client_width) : i \in positions}
    /\ ct_pc' = "done"
    /\ UNCHANGED <<client_width, scroll_width, ct_fixed, clicks, h_scrolls, ct_clicked, foundVars,
                   accVars, extVars, scVars, mainVars, locVars>>

\* Lines 471-473: a call of lines 378-467 raises and the handler of the container runs.
ContainerFails ==
    /\ ct_pc \in {"clicking", "backstop", "sweep"}
    /\ ct_pc' = "failed"
    /\ UNCHANGED <<client_width, scroll_width, ct_left, ct_fixed, clicks, h_scrolls, ct_clicked,
                   shown, foundVars, accVars, extVars, scVars, mainVars, locVars>>

\* Line 374: the loop goes on with its next container.
ContainerNext ==
    /\ ct_pc \in {"done", "failed"}
    /\ ct_pc' = "idle"
    /\ client_width' = 0
    /\ scroll_width' = 0
    /\ ct_left' = 0
    /\ ct_fixed' = FALSE
    /\ clicks' = 0
    /\ h_scrolls' = 0
    /\ ct_clicked' = 0
    /\ shown' = {}
    /\ UNCHANGED <<foundVars, accVars, extVars, scVars, mainVars, locVars>>

NextContainer ==
    \/ ContainerBegin
    \/ ClickStep
    \/ ClickEnd
    \/ BackstopStep
    \/ BackstopEnd
    \/ Sweep
    \/ ContainerFails
    \/ ContainerNext

SpecContainer == Init /\ [][NextContainer]_vars

\* The calls of the three loops return or raise, and the statements run one after the other.
SpecContainerFair ==
    /\ SpecContainer
    /\ WF_vars(ClickStep \/ ClickEnd)
    /\ WF_vars(BackstopStep)
    /\ WF_vars(BackstopEnd)
    /\ WF_vars(Sweep)

----------------------------------------------------------------------------
(* scrape_category_page: the page visit *)

\* Lines 171-194: the call starts, navigates and waits for the page.
Navigate ==
    /\ m_pc = "scraping"
    /\ pc = "idle" /\ visits < PageVisits
    /\ pc' = "loaded"
    /\ visits' = visits + 1
    /\ links_before' = HyperlinksOf(products)
    /\ UNCHANGED <<products, seen_urls, idx, pass_products, skipped, raw_links1, raw_links2,
                   raw_titles, dup_titles, extVars, restVars, scVars>>

\* The locals of scroll_page are gone once the call is over.
ScrollLocalsGone ==
    /\ sc_pc' = "idle"
    /\ last_height' = 0
    /\ last_product_count' = 0
    /\ scrolls' = 0
    /\ no_change_count' = 0
    /\ no_product_change_count' = 0
    /\ sc_steps' = 0
    /\ late_images' = FALSE
    /\ esc_streak' = -1
    /\ static_page' = FALSE

\* Line 198: scroll_page runs inside the visit.
VisitScrollBegin == pc = "loaded" /\ ScrollBegin

VisitScrollStep == pc = "loaded" /\ ScrollStep

VisitScrollRaise == pc = "loaded" /\ ScrollRaise

VisitScrollExit == pc = "loaded" /\ ScrollExit

VisitScrollFinish == pc = "loaded" /\ ScrollFinish

\* Lines 198-201: scroll_page has returned.
Settle ==
    /\ pc = "loaded"
    /\ sc_pc = "done"
    /\ pc' = "settled"
    /\ ScrollLocalsGone
    /\ UNCHANGED <<products, seen_urls, visits, idx, pass_products, skipped, raw_links1,
                   raw_links2, raw_titles, dup_titles, links_before, extVars, restVars>>

\* Lines 202-229: the carousels are scrolled, then the extra scroll pass and the page checks.
Reveal ==
    /\ pc = "settled"
    /\ pc' = "revealed"
    /\ UNCHANGED <<products, seen_urls, visits, idx, pass_products, skipped, raw_links1,
                   raw_links2, raw_titles, dup_titles, links_before, extVars, restVars, scVars>>

\* Lines 232 and 249: extract_products is entered; products = [] (line 814).
BeginPass(from, to) ==
    /\ pc = from
    /\ pc' = to
    /\ idx' = 0
    /\ pass_products' = << >>
    /\ UNCHANGED <<products, seen_urls, visits, skipped, raw_links1, raw_links2, raw_titles,
                   dup_titles, links_before, extVars, restVars, scVars>>

\* One iteration of the loop of line 1136, for the next located candidate e.
ExtractStep(e) ==
    /\ pc \in {"pass1", "pass2"}
    /\ idx < MaxCands
    /\ LET r == ExtractedAt[e, idx]
           after == LoopBody(r, pass_products, seen_urls)
       IN /\ pass_products' = after.products
          /\ seen_urls' = after.seen
          /\ skipped' = IF r.raised \/ Acceptable(r.product) THEN skipped
                        ELSE skipped \cup {SkipReason(r.product)}
          /\ LET links == IF /\ ~r.raised /\ Acceptable(r.product)
                             /\ Truthy(r.product.product_hyperlink)
                          THEN {r.product.product_hyperlink} ELSE {}
             IN /\ raw_links1' = IF pc = "pass1" THEN raw_links1 \cup links ELSE raw_links1
                /\ raw_links2' = IF pc = "pass2" THEN raw_links2 \cup links ELSE raw_links2
          /\ LET titles == IF /\ ~r.raised /\ Acceptable(r.product)
                              /\ ~Truthy(r.product.product_hyperlink)
                              /\ Truthy(r.product.product_title)
                           THEN {r.product.product_title} ELSE {}
             IN /\ raw_titles' = raw_titles \cup titles
                /\ dup_titles' = dup_titles \cup (titles \cap raw_titles)
    /\ idx' = idx + 1
    /\ UNCHANGED <<products, pc, visits, links_before, extVars, restVars, scVars>>

\* Lines 232-237: extract_products returns and its products are appended.
EndPass1 ==
    /\ pc = "pass1"
    /\ products' = products \o pass_products
    /\ pc' = "pass1done"
    /\ UNCHANGED <<seen_urls, visits, idx, pass_products, skipped, raw_links1, raw_links2,
                   raw_titles, dup_titles, links_before, extVars, restVars, scVars>>

\* Lines 239-246: the wait and the two scrolls before the second pass.
Resettle ==
    /\ pc = "pass1done"
    /\ pc' = "resettled"
    /\ UNCHANGED <<products, seen_urls, visits, idx, pass_products, skipped, raw_links1,
                   raw_links2, raw_titles, dup_titles, links_before, extVars, restVars, scVars>>

\* Lines 249-271: extract_products returns products_pass2, which is filtered and appended.
EndPass2 ==
    /\ pc = "pass2"
    /\ products' = MergePass2(products, pass_products)
    /\ pc' = "visited"
    /\ UNCHANGED <<seen_urls, visits, idx, pass_products, skipped, raw_links1, raw_links2,
                   raw_titles, dup_titles, links_before, extVars, restVars, scVars>>

\* Lines 273-277: a browser call outside the extraction loop raises, or scroll_page was left
\* by an exception; the handler of line 273 makes the call return [].
VisitFails ==
    /\ pc \in {"loaded", "settled", "revealed", "pass1done", "resettled"}
    /\ pc = "loaded" => sc_pc \in {"idle", "raised", "aborted"}
    /\ pc' = "failed"
    /\ ScrollLocalsGone
    /\ UNCHANGED <<products, seen_urls, visits, idx, pass_products, skipped, raw_links1,
                   raw_links2, raw_titles, dup_titles, links_before, extVars, restVars>>

\* scrape_category_page has returned; the scraper is ready for another call (the history
\* of the visit is forgotten).
Return ==
    /\ pc \in {"visited", "failed"}
    /\ pc' = "idle"
    /\ idx' = 0 /\ pass_products' = << >>
    /\ skipped' = {}
    /\ raw_links1' = {} /\ raw_links2' = {} /\ raw_titles' = {} /\ dup_titles' = {}
    /\ links_before' = {}
    /\ UNCHANGED <<products, seen_urls, visits, extVars, restVars, scVars>>

----------------------------------------------------------------------------
(* main, HEBScraper.__init__, setup_driver, scrape_homepage and close *)

\* Lines 1610, 16-98: the scraper is constructed, the browser launched and prepared.
SetupSucceeds ==
    /\ m_pc = "start"
    /\ scraper' = TRUE
    /\ driver' = "open"
    /\ m_pc' = "scraping"
    /\ UNCHANGED <<quits, m_products, exports, accVars, extVars, scVars,
                   locVars, carVars>>

\* Lines 68-77, 99-102: webdriver.Chrome raises; setup_driver re-raises, the constructor
\* fails and main's scraper stays None.
LaunchFails ==
    /\ m_pc = "start"
    /\ m_pc' = "failure"
    /\ UNCHANGED <<scraper, driver, quits, m_products, exports, accVars, extVars, scVars,
                   locVars, carVars>>

\* Lines 74-102: the browser is launched (self.driver is set), then execute_cdp_cmd or
\* maximize_window raises, or the run is interrupted; the constructor fails and main's
\* scraper stays None.
SetupFailsAfterLaunch ==
    /\ m_pc = "start"
    /\ driver' = "open"
    /\ m_pc' \in {"failure", "interrupt"}
    /\ UNCHANGED <<scraper, quits, m_products, exports, accVars, extVars, scVars,
                   locVars, carVars>>

\* Lines 291-299: scrape_category_page has returned, scrape_homepage returns self.products.
HomepageReturns ==
    /\ m_pc = "scraping"
    /\ pc = "idle" /\ visits = PageVisits
    /\ m_products' = products
    /\ m_pc' = "returned"
    /\ UNCHANGED <<scraper, driver, quits, exports, accVars, extVars, scVars,
                   locVars, carVars>>

\* Lines 301-305: a statement of scrape_homepage outside the try of scrape_category_page
\* raises before or after the visit; scrape_homepage returns [].
HomepageFails ==
    /\ m_pc = "scraping"
    /\ pc = "idle"
    /\ m_products' = << >>
    /\ m_pc' = "returned"
    /\ UNCHANGED <<scraper, driver, quits, exports, accVars, extVars, scVars,
                   locVars, carVars>>

\* KeyboardInterrupt while scrape_homepage runs or main prints its summary: no handler of
\* the scraper catches it (they catch Exception), it reaches main's handler of line 1669.
Interrupt ==
    /\ m_pc \in {"scraping", "returned"}
    /\ m_pc' = "interrupt"
    /\ pc' = "idle"
    /\ idx' = 0 /\ pass_products' = << >>
    /\ skipped' = {}
    /\ raw_links1' = {} /\ raw_links2' = {} /\ raw_titles' = {} /\ dup_titles' = {}
    /\ links_before' = {}
    /\ ScrollLocalsGone
    /\ UNCHANGED <<products, seen_urls, visits, scraper, driver, quits, m_products, exports,
                   extVars, locVars, carVars>>

\* Lines 1613-1667: the summary, then the files are written when products is not empty;
\* any of these statements may raise.
MainSave ==
    /\ m_pc = "returned"
    /\ exports' = IF m_products # << >> THEN exports + 1 ELSE exports
    /\ m_pc' \in {"finally", "failure"}
    /\ UNCHANGED <<scraper, driver, quits, m_products, accVars, extVars, scVars,
                   locVars, carVars>>

\* Lines 1669-1678 and 1680-1691: the handlers save what the scraper has accumulated.
HandlerSave ==
    /\ exports' = IF scraper /\ products # << >> THEN exports + 1 ELSE exports
    /\ m_pc' = "finally"
    /\ UNCHANGED <<scraper, driver, quits, m_products, accVars, extVars, scVars,
                   locVars, carVars>>

HandleInterrupt == m_pc = "interrupt" /\ HandlerSave

HandleFailure == m_pc = "failure" /\ HandlerSave

\* Lines 1693-1695 and 1592-1596: finally closes the scraper when there is one.
Finally ==
    /\ m_pc = "finally"
    /\ m_pc' = "ended"
    /\ IF scraper /\ driver # "none"
       THEN driver' = "quit" /\ quits' = quits + 1
       ELSE UNCHANGED <<driver, quits>>
    /\ UNCHANGED <<scraper, m_products, exports, accVars, extVars, scVars,
                   locVars, carVars>>

\* A variant that starts the first pass while the page is still being scrolled.
Pass1Begins_Unsettled == BeginPass("loaded", "pass1")

Pass1Begins == BeginPass("revealed", "pass1")

Pass2Begins == BeginPass("resettled", "pass2")

ExtractCandidate == \E e \in PageElements : ExtractStep(e)

Next ==
    \/ Navigate
    \/ VisitScrollBegin
    \/ VisitScrollStep
    \/ VisitScrollRaise
    \/ VisitScrollExit
    \/ VisitScrollFinish
    \/ Settle
    \/ Reveal
    \/ Pass1Begins
    \/ ExtractCandidate
    \/ EndPass1
    \/ Resettle
    \/ Pass2Begins
    \/ EndPass2
    \/ VisitFails
    \/ Return
    \/ SetupSucceeds
    \/ LaunchFails
    \/ SetupFailsAfterLaunch
    \/ HomepageReturns
    \/ HomepageFails
    \/ Interrupt
    \/ MainSave
    \/ HandleInterrupt
    \/ HandleFailure
    \/ Finally

Spec == Init /\ [][Next]_vars

----------------------------------------------------------------------------
(* extract_product_data called on its own: the caller picks a candidate and  *)
(* an index, the function returns.                                           *)

LinkInputs == {NULL, << >>, UrlA, RelC, BareD, UrlMention, UrlOther}

OnclickInputs == {<< >>, <<Schemeless>>, <<UrlA>>, <<UrlOther>>}

LinkLists == UNION {[1..n -> LinkInputs] : n \in 0..MaxLinks}

\* Elements that differ in what the four hyperlink strategies read.
LinkElements ==
    {[Bare EXCEPT !.tag = t, !.href = h, !.links = l, !.onclick = o] :
        t \in {"a", "div"}, h \in LinkInputs, l \in LinkLists, o \in OnclickInputs}

\* The browser calls outside every inner try, one at a time, and all calls at once.
FailSets == {{}, {"probe"}, {"tag"}, {"href"}, {"tag2"}, CallSites}

FailingElements == {[e EXCEPT !.fails = f] : e \in PageElements, f \in FailSets}

ExtractElements ==
    LinkElements \cup FailingElements
        \cup {[ElemPriceOnly EXCEPT !.tag = "a"], [Bare EXCEPT !.text = <<<<"Shop", "Milk", "12oz">>>>],
              [Bare EXCEPT !.text = <<<<"View", "Brand", "Cereal">>, TMilk>>],
              [Bare EXCEPT !.imgs = <<ImgTag(<<"/img/", "logo", ".png">>)>>],
              [Bare EXCEPT !.imgs = <<ImgTag(<<"/img/", "sprite", ".png">>),
                                      ImgTag(<<"/img/", "e.jpg">>)>>]}

\* The caller passes an element and its index (line 1141).
ExCall ==
    /\ ex_pc = "idle"
    /\ \E e \in ExtractElements, i \in 0..MaxIndex :
          /\ ex_elem' = e
          /\ ex_index' = i
    /\ ex_pc' = "called"
    /\ UNCHANGED <<ex_result, accVars, scVars, restVars>>

\* Lines 1174-1521: the function runs and hands its result to the caller.
ExReturn ==
    /\ ex_pc = "called"
    /\ ex_result' = extract_product_data(ex_elem, ex_index)
    /\ ex_pc' = "returned"
    /\ UNCHANGED <<ex_elem, ex_index, accVars, scVars, restVars>>

\* The caller goes on to its next candidate.
ExNext ==
    /\ ex_pc = "returned"
    /\ ex_pc' = "idle"
    /\ ex_elem' = Bare
    /\ ex_index' = 0
    /\ ex_result' = [product |-> EmptyProduct, raised |-> FALSE]
    /\ UNCHANGED <<accVars, scVars, restVars>>

NextExtract == ExCall \/ ExReturn \/ ExNext

SpecExtract == Init /\ [][NextExtract]_vars

----------------------------------------------------------------------------
(* Properties of the accumulator *)

\* DedupKey of a record: its hyperlink if present, else its title.
DedupKey(r) == IF Truthy(r.product_hyperlink) THEN r.product_hyperlink ELSE r.product_title

KeysOf(list) == {DedupKey(list[i]) : i \in 1..Len(list)}

Occurs(r, list) == \E i \in 1..Len(list) : list[i] = r

\* The positions of the collection that hold a record with hyperlink h.
WithLink(h) == {i \in 1..Len(products) : products[i].product_hyperlink = h}

\* The positions of the collection that hold a record without hyperlink and with title t.
WithTitleOnly(t) ==
    {i \in 1..Len(products) :
        ~Truthy(products[i].product_hyperlink) /\ products[i].product_title = t}

HasCategoryPath(url) ==
    \E seg \in {"/category/", "/department/", "/shop/"} : \E i \in 1..Len(url) : url[i] = seg

\* C1: no two records of the accumulated collection self.products have the same DedupKey.
C1_UniqueKeys ==
    \A i, j \in 1..Len(products) :
        i # j => DedupKey(products[i]) # DedupKey(products[j])

\* Both passes extracted a record with the same hyperlink, and the collection holds
\* records of both passes.
C1_Witness ==
    /\ pc = "visited"
    /\ raw_links1 \cap raw_links2 # {}
    /\ Len(pass_products) > 0
    /\ Len(products) >= 3

\* C2: a pass-2 record is added to the collection if and only if its DedupKey was not yet
\* in the seen set, and the seen set gains a key exactly when the record carrying it is
\* added: after the second pass every record extract_products returned for it is in the
\* collection, and the seen keys are the keys of the collected records.
C2_Pass2SameRule ==
    pc = "visited" =>
        /\ \A i \in 1..Len(pass_products) : Occurs(pass_products[i], products)
        /\ seen_urls = KeysOf(products)

\* C3: every record of a pass result or of the collection has a title, a price or an image.
C3_EssentialData ==
    \A i \in 1..Len(products \o pass_products) :
        LET r == (products \o pass_products)[i]
        IN Truthy(r.product_title) \/ Truthy(r.product_price) \/ Truthy(r.product_image)

\* A candidate without title, price and image was skipped while others were collected.
C3_Witness ==
    /\ pc = "visited"
    /\ "no essential data" \in skipped
    /\ Len(products) > 0
    /\ Len(pass_products) > 0

\* C4: no record of the collection has a hyperlink with a category, department or shop path.
C4_NoCategoryLink ==
    \A i \in 1..Len(products) : ~HasCategoryPath(products[i].product_hyperlink)

\* A candidate with a category link was skipped while others were collected.
C4_Witness ==
    /\ pc = "visited"
    /\ "category link" \in skipped
    /\ Len(products) > 0
    /\ Len(pass_products) > 0

\* C6: after the visit the collection holds exactly one record for every hyperlink the
\* passes extracted (S1 in pass 1, S2 in pass 2), and no other hyperlink.
C6_UnionOfPasses ==
    pc \in {"pass1done", "resettled", "visited", "failed"} =>
        /\ \A h \in raw_links1 \cup raw_links2 : Cardinality(WithLink(h)) = 1
        /\ HyperlinksOf(products) = links_before \cup raw_links1 \cup raw_links2

\* The scenario S1 = {A, B, C}, S2 = {B, C, D}: four records.
C6_Witness ==
    /\ pc = "visited"
    /\ raw_links1 = {UrlA, UrlB, base_url \o RelC}
    /\ raw_links2 = {UrlB, base_url \o RelC, base_url \o <<"/">> \o BareD}
    /\ Len(products) = 4

\* C7: when two candidates yield no hyperlink and the same title, the collection keeps
\* exactly one record for them, in whichever passes they occur.
C7_OnePerTitle ==
    pc \in {"pass1done", "resettled", "visited", "failed"} =>
        \A t \in dup_titles : Cardinality(WithTitleOnly(t)) = 1

\* C8: merging the same products_pass2 a second time changes nothing: the collection is
\* unchanged, and every key of products_pass2 is a seen key, so that extracting the same
\* candidates again adds nothing to the seen set.
C8_MergeIdempotent ==
    pc = "visited" =>
        /\ MergePass2(products, pass_products) = products
        /\ \A i \in 1..Len(pass_products) : DedupKey(pass_products[i]) \in seen_urls

\* The second pass returned records and they were appended after those of the first pass.
C8_Witness ==
    /\ pc = "visited"
    /\ Len(pass_products) >= 2
    /\ Len(products) > Len(pass_products)
    /\ products[Len(products)] = pass_products[Len(pass_products)]


----------------------------------------------------------------------------
(* Properties of extract_product_data (specification SpecExtract) *)

HostOf(url) == IF StartsWithHttp(url) /\ Len(url) >= 2 THEN url[2] ELSE ""

SiteHosts == {"heb.com"}

FieldNames == {"product_title", "product_price", "product_image", "product_hyperlink"}

\* One of the calls made outside every inner try fails for the element and index.
UnguardedFailure(e, index) ==
    \/ index < 3 /\ "probe" \in e.fails
    \/ "tag" \in e.fails
    \/ e.tag = "a" /\ "href" \in e.fails

\* C9: extract_product_data never hands an exception to its caller; whatever fails on the
\* candidate, the result is a record of exactly the four fields, each a value or null.
C9_NeverRaises ==
    ex_pc = "returned" =>
        /\ ~ex_result.raised
        /\ DOMAIN ex_result.product = FieldNames
        /\ \A f \in FieldNames : ex_result.product[f] = NULL \/ Truthy(ex_result.product[f])

\* Every browser call on the candidate fails, and the function has returned.
C9_Witness ==
    /\ ex_pc = "returned"
    /\ ex_elem.fails = CallSites
    /\ UnguardedFailure(ex_elem, ex_index)
    /\ ex_result.product = EmptyProduct

\* C10: every hyperlink the function returns is an absolute URL whose host is the site's.
C10_SiteLinksOnly ==
    ex_pc = "returned" =>
        LET link == ex_result.product.product_hyperlink
        IN link # NULL => StartsWithHttp(link) /\ HostOf(link) \in SiteHosts

----------------------------------------------------------------------------
(* Properties of scroll_page (specification SpecScrollFair) *)

\* C5: whatever heights and image counts the browser reports, the main loop starts at most
\* max_scrolls iterations, and a call that is in the loop leaves it.
C5_LoopBounded ==
    /\ [](sc_steps <= max_scrolls)
    /\ (sc_pc = "loop") ~> (sc_pc # "loop")

\* The loop has used all its iterations without converging and has been left.
C5_Witness ==
    /\ sc_pc = "final"
    /\ sc_steps = max_scrolls
    /\ scrolls = max_scrolls

----------------------------------------------------------------------------
(* Properties of the page visit: scroll errors and the order of the phases *)

\* C11: an error raised by a script call inside an iteration of the main loop is swallowed:
\* scroll_page is never left through it (the loop goes on and the visit proceeds).
C11_StepErrorSwallowed == ~(pc = "loaded" /\ sc_pc = "raised")

\* C12: inside a visit the phases follow one another: scroll_page is over before the
\* carousels are revealed, the carousels before pass 1 starts, pass 1 with the merge of its
\* records before pass 2 starts; scroll_page runs in no other phase.
C12_PhaseOrder ==
    [][/\ pc' = "settled" => pc = "settled" \/ (pc = "loaded" /\ sc_pc = "done")
       /\ pc' = "revealed" => pc \in {"settled", "revealed"}
       /\ pc' = "pass1" => pc \in {"revealed", "pass1"}
       /\ pc' = "pass1done" => pc \in {"pass1", "pass1done"}
       /\ pc' = "pass2" => pc \in {"resettled", "pass2"}
       /\ sc_pc' # "idle" => pc' = "loaded"]_vars

\* The second pass is at work on its candidates after the first pass has merged a record.
C12_Witness ==
    /\ pc = "pass2"
    /\ idx > 0
    /\ Len(products) > 0
    /\ sc_pc = "idle"

----------------------------------------------------------------------------
(* Properties of main: export and release of the browser *)

\* C13: however the run ends, when the accumulated collection is not empty main has started
\* saving it before the run is over.
C13_ExportAttempted == (m_pc = "ended" /\ products # << >>) => exports > 0

\* C14: a browser session that was created is released by driver.quit() exactly once before
\* the run ends.
C14_ReleasedOnce == (m_pc = "ended" /\ driver # "none") => (driver = "quit" /\ quits = 1)

\* The nodes that occur at two positions of a list.
RepeatedNodes(list) ==
    {list[i].node.node : i \in {k \in 1..Len(list) :
                                   \E j \in 1..Len(list) : j # k /\ list[j].node = list[k].node}}

\* C15: the candidate list from which the records are extracted holds no two handles of the
\* same DOM node, whichever queries returned the node.
C15_OneHandlePerNode == loc_pc = "located" => RepeatedNodes(product_elements) = {}

\* The matches of the cascade that the claim wants in the list.
CascadeMatch(n) ==
    /\ n.sels \cap {product_selectors[k] : k \in 1..Len(product_selectors)} # {}
    /\ n.has_img
    /\ (n.text_len > 0 \/ n.has_price)
    /\ ~HasCategoryHref(n)

\* C18: every match of a cascade selector that has an image, has text or a price, and whose
\* link is not a category link, is in the candidate list.
C18_CascadeMatchesKept ==
    loc_pc = "located" =>
        \A i \in 1..Len(page) : CascadeMatch(page[i]) => page[i].node \in NodesOf(product_elements)

\* The threshold the claim names for a tier.
ThresholdOf(tier) ==
    IF tier = "price" THEN PriceBelow
    ELSE IF tier = "links" THEN LinksBelow
    ELSE IF tier = "blocks" THEN BlocksBelow
    ELSE BroadBelow

\* C19: a tier runs exactly when the number of unique candidates collected so far is below
\* its threshold; repeated entries of one candidate never make a tier skip.
C19_TiersByUniqueCount ==
    \A i \in 1..Len(tier_log) : tier_log[i].ran <=> tier_log[i].unique < ThresholdOf(tier_log[i].tier)

\* C16: a failure while one carousel container is processed does not stop the carousel
\* pass: when the call returns every container was processed, those after a failing one
\* included.
C16_FailureSkipsOneContainer ==
    car_pc = "returned" =>
        /\ Len(car_done) = Len(carousels)
        /\ \A i \in 1..Len(carousels) : car_done[i] = "failed" <=> carousels[i] = "fails"

C16_Witness ==
    /\ car_pc = "returned"
    /\ \E i, j \in 1..Len(carousels) :
          /\ i < j
          /\ carousels[i] = "fails" /\ car_done[i] = "failed"
          /\ carousels[j] = "scrolls" /\ car_done[j] = "scrolled"

\* C17: for a candidate whose only text is "$12.99", without accessible name and without
\* tooltip, the extracted title is null and the extracted price is "$12.99" (when the calls
\* outside every inner try and the read of the text for the price do not fail).
C17_PriceOnlyCandidate ==
    (/\ ex_pc = "returned"
     /\ ex_elem.text = <<<<"$12.99">>>>
     /\ ex_elem.headings = << >>
     /\ ex_elem.aria_label = NULL /\ ex_elem.title_attr = NULL
     /\ ~UnguardedFailure(ex_elem, ex_index) /\ ex_elem.fails \cap {"tag2", "P2"} = {})
    => /\ ex_result.product.product_title = NULL
       /\ ex_result.product.product_price = <<"$12.99">>

C17_Witness ==
    /\ ex_pc = "returned"
    /\ ex_elem = ElemPriceOnly
    /\ ex_result.product.product_title = NULL
    /\ ex_result.product.product_price = <<"$12.99">>

\* C20: the loop ends by convergence (the break of line 572, which leaves scrolls below
\* max_scrolls) only if the image count is still unchanged after the two re-check scrolls;
\* when the page gained images during them the loop continues.
C20_ConvergenceNeedsBothSignals ==
    (sc_pc = "final" /\ scrolls < max_scrolls) => ~late_images

\* C21: the branch of the re-checks (the force-scroll of line 559) is entered only after 5
\* consecutive iterations without change of the height and without growth of the image
\* count: when an iteration enters it, the streak of the image count is at least 5 as well.
C21_EscalationNeedsBothStreaks ==
    esc_streak # -1 => esc_streak >= NoProductChangeLimit

\* C22: on a page whose height and non-zero image count never change, the loop is left by
\* the break of line 572 in its 5th iteration.
C22_StaticPageConvergesAtFifth ==
    (static_page /\ sc_steps = NoChangeLimit) =>
        (sc_pc \in {"final", "done", "aborted"} /\ scrolls = NoChangeLimit - 1)

\* C23: a failure inside one strategy of one field affects that strategy only: whatever
\* fails in the hyperlink and title strategies, the price and image strategies still run
\* and the record holds what they find.
C23_StrategyFailureIsLocal ==
    (ex_pc = "returned" /\ ~(ex_index < 3 /\ "probe" \in ex_elem.fails)) =>
        /\ ex_result.product.product_price = Price(ex_elem)
        /\ ex_result.product.product_image = Image(ex_elem)

\* C24: a title taken from the element's own text (strategy 2) satisfies the validity
\* predicate of strategy 1 (length in [5,200], not a pure price, none of the terms 'price',
\* 'add to cart', 'buy now', 'view', 'shop', 'category') and has at least 2 words.
C24_OwnTextTitleValid ==
    (/\ ex_pc = "returned"
     /\ TitleStrategy1(ex_elem) = NULL
     /\ TitleStrategy2(ex_elem) # NULL
     /\ ex_result.product.product_title = TitleStrategy2(ex_elem))
    => LET t == ex_result.product.product_title
       IN /\ 5 <= LineLen(t) /\ LineLen(t) <= 200
          /\ ~IsPurePrice(t)
          /\ \A term \in {"price", "add to cart", "buy now", "view", "shop", "category"} :
                ~HasTerm(t, term)
          /\ SumWords(t, 1) >= 2

\* C25: no image value that the descendant-image, picture-source or largest-area strategy
\* returns contains a denylisted term (placeholder, logo, icon, sprite).
C25_NoDenylistedImage ==
    ex_pc = "returned" =>
        LET v == FirstSet(<<ImageStrategy1(ex_elem), ImageStrategy2(ex_elem),
                            ImageStrategy2b(ex_elem)>>, 1)
        IN (Truthy(v) /\ ex_result.product.product_image = v) =>
               \A term \in {"placeholder", "logo", "icon", "sprite"} : ~Contains(v, term)

\* C27: the containers the carousel pass processes are deduplicated by identity: no DOM
\* node is in the list twice, whether several selectors match it or a selector and the
\* ancestor of a next control find it.
C27_ContainersOnce ==
    \A i, j \in 1..Len(car_nodes) : car_nodes[i] = car_nodes[j] => i = j

\* C26: after a scrollable container was processed without error, every offset of its
\* content in [0, scrollWidth) has been inside the visible window at some scroll position
\* of the processing (for a container that follows the scroll positions it is given).
C26_EveryOffsetShown ==
    (ct_pc = "done" /\ scroll_width > client_width /\ ~ct_fixed) =>
        \A x \in 0..(scroll_width - 1) : x % 10 = 0 => x \in shown

\* C28: for one container the click loop makes at most 20 clicks and goes on only after a
\* click that moved the content to a position below max_scroll - 10, the programmatic
\* scroll makes at most 10 steps, and the processing of the container ends.
C28_ContainerBounded ==
    /\ [](ct_clicked <= max_clicks /\ h_scrolls <= max_horizontal_scrolls)
    /\ []((ct_pc = "clicking" /\ ct_clicked > 0) =>
             (clicks = ct_clicked /\ ct_left < scroll_width - client_width - Tolerance))
    /\ (ct_pc \in {"clicking", "backstop", "sweep"}) ~> (ct_pc \in {"done", "failed"})

\* Twenty clicks of half a window were made and the content is not at its end.
C28_Witness ==
    /\ ct_pc = "backstop"
    /\ ct_clicked = max_clicks
    /\ h_scrolls = 0
    /\ ct_left < scroll_width - client_width - Tolerance

\* A record with neither a hyperlink nor a title.
Keyless(p) == ~Truthy(p.product_hyperlink) /\ ~Truthy(p.product_title)

\* C29: a record with neither a hyperlink nor a title (a price and/or an image only) leaves
\* the pass result and the seen keys as they are, whatever candidate of the page yields it,
\* and so every record of a pass result and of the collection has a non-empty DedupKey and
\* no seen key is empty.
C29_KeylessNeverAdded ==
    /\ \A i \in 1..Len(products) : Truthy(DedupKey(products[i]))
    /\ \A i \in 1..Len(pass_products) : Truthy(DedupKey(pass_products[i]))
    /\ \A k \in seen_urls : Truthy(k)
    /\ pc \in {"pass1", "pass2"} =>
          \A e \in PageElements :
              LET r == ExtractedAt[e, idx]
              IN Keyless(r.product) =>
                    LoopBody(r, pass_products, seen_urls)
                        = [products |-> pass_products, seen |-> seen_urls]

\* Pass 1 collected records with hyperlinks, and the first candidate of pass 2 was
\* processed: it was not skipped by line 1162, so it had a title, a price or an image, and
\* it yielded neither a hyperlink nor a title; nothing was added.
C29_Witness ==
    /\ pc = "pass2"
    /\ idx = 1
    /\ skipped = {}
    /\ raw_links2 = {}
    /\ raw_titles = {}
    /\ pass_products = << >>
    /\ Len(products) = 2
    /\ seen_urls = KeysOf(products)

\* The number of positions of a list that hold an object.
Occurrences(list, obj) == Cardinality({i \in 1..Len(list) : list[i].obj = obj})

\* The lists the price tier can be entered with: what selectors of the cascade returned and
\* kept, the identity of every entry being in seen_element_ids.
InitialLists(pg) == {Handles(product_selectors[1], FirstN(pg, k)) : k \in 0..2}

\* C30: on every page and for every list it starts with, the price tier ends (its merge
\* loop reaches the end of the growing list), and at its end every ancestor object the
\* tier found is in the list exactly twice and every entry the list started with once; so
\* is product_elements after the tier ran in the search.
C30_MergeDoublesAncestors ==
    /\ loc_pc \in {"price", "links"} =>
          \A list \in InitialLists(page) :
              LET parents == PriceParents(page)
                  r == PriceTier(page, list, ObjectsOf(list))
              IN /\ Len(r.list) = Len(list) + 2 * Len(parents)
                 /\ \A j \in 1..Len(parents) : Occurrences(r.list, parents[j].obj) = 2
                 /\ \A j \in 1..Len(list) : Occurrences(r.list, list[j].obj) = 1
                 /\ r.seen = ObjectsOf(r.list)
    /\ (loc_pc = "links" /\ tier_log[Len(tier_log)].ran) =>
          /\ Len(product_elements) = 2 * Len(PriceParents(page))
          /\ \A j \in 1..Len(product_elements) :
                Occurrences(product_elements, product_elements[j].obj) = 2

\* The tier ran on a page with two cards of two price elements each: four ancestor objects
\* were found and the list holds eight entries.
C30_Witness ==
    /\ loc_pc = "links"
    /\ tier_log[Len(tier_log)].ran
    /\ Len(PriceParents(page)) = 4
    /\ Len(product_elements) = 8

=============================================================================
